---- MODULE Spec2Model ----
(***************************************************************************)
(* runapp: a command-line supervisor for one gunicorn application.         *)
(* Model of src/runapp.py: settings loading, the process-table scan, the   *)
(* derivation of shell commands and the start / stop / restart / debug /   *)
(* list / pid / conf operations of one invocation, together with the       *)
(* environment they run in (the process table and the settings file).      *)
(*                                                                         *)
(* Conventions.                                                            *)
(*  - argv is a sequence; Python's sys.argv[k] is argv[k+1] here.          *)
(*  - A shell command string is a sequence of tokens; the separator        *)
(*    ' && ' is a token of its own, so that joining and shell parsing are  *)
(*    modelled by what they do.  The empty sequence is the string ''.      *)
(*  - Every per-invocation variable is a function over invocation ids.     *)
(***************************************************************************)
EXTENDS Integers, Sequences, FiniteSets, TLC

\* Largest process id of the modelled process table.
MaxPid == 2

Pids == 1..MaxPid

\* Largest number of lines of a synthetic process listing.
MaxLines == 3

\* What a slot of the process table holds:
\*   "free"  no process has this pid
\*   "guni"  a gunicorn process of the configured application
\*           (command line contains the appname and 'gunicorn')
\*   "edit"  a process whose command line contains the appname but not
\*           'gunicorn' (e.g. vim hellopy.txt)
\*   "other" a gunicorn process of another application run with the
\*           'runapp' name suffix (matched by the list-all pattern only)
Kinds == {"free", "guni", "edit", "other"}

\* Values of the port key that the settings file may hold.
Ports == {8000, 8001}

\* Number of space-separated fields of a `ps aux` line (USER .. COMMAND).
PsFields == 11

VARIABLES
  table,     \* the OS process table: pid -> kind
  conf,      \* the settings file the invocation resolves to
  appdir,    \* whether the application directory named in argv exists
  argv,      \* sys.argv of each invocation
  pc,        \* position of each invocation
  fn,        \* the process_* function an invocation is executing
  settings,  \* class settings (process-wide state of the invocation)
  psout,     \* output of the list command the invocation ran last
  pids,      \* local variable pids of the running process_* function
  cmd,       \* local variable cmd of the running process_* function
  out,       \* what the invocation printed, in order
  exit,      \* how the invocation ended
  shown,     \* the command handed to sys.exit by show_cmd
  scans,     \* number of process-listing commands the invocation ran
  execs,     \* number of run_cmd calls of the invocation
  reads,     \* number of times the invocation opened the settings file
  loads,     \* number of load_conf() calls of the invocation
  status,    \* exit status of the invocation's last run_cmd ("" before it)
  kills,     \* pids for which the invocation's shell ran kill -9, in order
  failed,    \* those of them whose kill -9 exited non-zero, in order
  launched   \* whether the invocation's shell ran the server segment

vars == <<table, conf, appdir, argv, pc, fn, settings, psout, pids, cmd, out,
          exit, shown, scans, execs, reads, loads, status, kills, failed,
          launched>>

envvars == <<table, conf, appdir>>

----------------------------------------------------------------------------
(* Shell command tokens *)

Tok(t, n, chdir, tls) == [t |-> t, n |-> n, chdir |-> chdir, tls |-> tls]

\* "kill -9 <pid>"
KillTok(p) == Tok("kill", p, FALSE, FALSE)

\* " && "
AndTok == Tok("&&", 0, FALSE, FALSE)

\* the value '' of an unset command setting
NoTok == Tok("", 0, FALSE, FALSE)

----------------------------------------------------------------------------
(* Configuration: class settings, validate_specified_configs, load_conf *)

\* class settings as the interpreter leaves it after the class statement
\* (port 0 stands for the unset string '').
InitialSettings ==
  [load_once |-> TRUE, port |-> 0, chdir |-> FALSE,
   cm_start |-> NoTok, cm_debug |-> NoTok,
   cm_list |-> NoTok, cm_listall |-> NoTok]

\* The settings files drawn on: whether the file exists, whether it holds
\* all six required keys, what its sslcertkey option holds ("absent": no
\* such option, "cert": one path, "certkey": two paths) and its port.
ConfFiles ==
  [exists : BOOLEAN, keys : BOOLEAN, ssl : {"absent", "cert", "certkey"},
   port : Ports]

\* The settings files an invocation may find when it starts: the contents of
\* a missing file and the sslcertkey option of a file that lacks a required
\* key decide nothing, so one of each is drawn.
InitialConfFiles ==
  {c \in ConfFiles :
     /\ c.port = 8000
     /\ ~c.exists => c.keys /\ c.ssl = "certkey"
     /\ ~c.keys => c.ssl = "certkey"}

\* validate_specified_configs(): "False" when fewer than four argv entries,
\* an exit when a named path is missing, "valid" otherwise.
ValidateSpecifiedConfigs(a, cf, ad) ==
  IF Len(a) < 4 THEN "False"
  ELSE IF ~cf.exists THEN "exit_config"
  ELSE IF ~ad THEN "exit_appdir"
  ELSE "valid"

\* The result of one load_conf() call: the settings afterwards, how the call
\* ended ("" is a normal return, "sysexit" a sys.exit(message), "uncaught"
\* an exception nothing catches), the message, and whether the settings
\* file was opened.
LoadResult(s, how, msg, read) ==
  [settings |-> s, exit |-> how, msg |-> msg, read |-> read]

\* load_conf() without its run-once guard.
LoadOnceReturns_Never(s) == FALSE

\* The run-once guard of load_conf(): whether the call returns at once.
LoadOnceReturns(s) == ~s.load_once

load_conf(a, s, cf, ad) ==
  LET v      == ValidateSpecifiedConfigs(a, cf, ad)
      once   == [s EXCEPT !.load_once = FALSE]
      parsed == [once EXCEPT !.port = cf.port, !.chdir = (v = "valid")]
      start  == Tok("start", parsed.port, parsed.chdir, TRUE)
      built  == [parsed EXCEPT
                   !.cm_start   = start,
                   !.cm_debug   = [start EXCEPT !.t = "debug"],
                   !.cm_list    = Tok("list", 0, FALSE, FALSE),
                   !.cm_listall = Tok("listall", 0, FALSE, FALSE)]
  IN  IF v = "exit_config" THEN LoadResult(s, "sysexit", "config_not_found", 0)
      ELSE IF v = "exit_appdir" THEN LoadResult(s, "sysexit", "appdir_not_valid", 0)
      ELSE IF LoadOnceReturns(s) THEN LoadResult(s, "", "", 0)
      ELSE IF ~cf.exists THEN LoadResult(once, "sysexit", "config_not_found", 0)
      ELSE IF ~cf.keys THEN LoadResult(once, "uncaught", "NoOptionError", 1)
      ELSE IF cf.ssl = "cert" THEN LoadResult(parsed, "uncaught", "IndexError", 1)
      ELSE IF cf.ssl = "absent" THEN LoadResult(parsed, "uncaught", "UnboundLocalError", 1)
      ELSE LoadResult(built, "", "", 1)

----------------------------------------------------------------------------
(* Process table scan: ps_aux, get_pids *)

\* One line of the `ps aux | grep` output: its pid, its number of
\* space-separated fields after whitespace is collapsed, and whether its
\* COMMAND field contains 'gunicorn'.
Line(p, k) == [pid |-> p, nf |-> PsFields, guni |-> k \in {"guni", "other"}]

\* Which process kinds the grep pattern of the list command lets through:
\* cm_list greps the appname, cm_listall greps the 'runapp' suffix.
Matches(k, show_all) ==
  IF show_all THEN k \in {"guni", "other"} ELSE k \in {"guni", "edit"}

\* The output of the list command on a process table, in pid order.
RECURSIVE ListingFrom(_, _, _)
ListingFrom(tbl, show_all, p) ==
  IF p > MaxPid THEN <<>>
  ELSE (IF Matches(tbl[p], show_all) THEN <<Line(p, tbl[p])>> ELSE <<>>)
       \o ListingFrom(tbl, show_all, p + 1)

Listing(tbl, show_all) == ListingFrom(tbl, show_all, 1)

\* ps_aux() without its `if 'gunicorn' in line[10]`.
ps_aux_NoFilter(listing) ==
  IF listing = <<>> THEN [err |-> FALSE, exc |-> "", procs |-> <<>>]
  ELSE IF \E k \in 1..Len(listing) : listing[k].nf < PsFields
       THEN [err |-> TRUE, exc |-> "IndexError", procs |-> <<>>]
       ELSE [err |-> FALSE, exc |-> "", procs |-> listing]

\* ps_aux() without its try / except around check_output.
ps_aux_NoExcept(listing) ==
  IF listing = <<>>
  THEN [err |-> TRUE, exc |-> "CalledProcessError", procs |-> <<>>]
  ELSE IF \E k \in 1..Len(listing) : listing[k].nf < PsFields
       THEN [err |-> TRUE, exc |-> "IndexError", procs |-> <<>>]
       ELSE [err |-> FALSE, exc |-> "",
             procs |-> SelectSeq(listing, LAMBDA l : l.guni)]

\* ps_aux() on the output of the list command.  grep exits non-zero when no
\* line matches: CalledProcessError, caught, [].  Otherwise every line is
\* split into at most 11 fields and line[10] is read: an IndexError on a
\* line of fewer fields.
ps_aux(listing) ==
  IF listing = <<>> THEN [err |-> FALSE, exc |-> "", procs |-> <<>>]
  ELSE IF \E k \in 1..Len(listing) : listing[k].nf < PsFields
       THEN [err |-> TRUE, exc |-> "IndexError", procs |-> <<>>]
       ELSE [err |-> FALSE, exc |-> "",
             procs |-> SelectSeq(listing, LAMBDA l : l.guni)]

\* get_pids(): the pid of every record, in order.
get_pids(procs) == [k \in 1..Len(procs) |-> procs[k].pid]

----------------------------------------------------------------------------
(* Commands: the kill chain, show_cmd, the shell *)

\* "kill -9 " + ' && kill -9 '.join(pids), for a non-empty pids.
RECURSIVE KillJoin(_)
KillJoin(ps) ==
  IF Len(ps) = 1 THEN <<KillTok(ps[1])>>
  ELSE <<KillTok(ps[1]), AndTok>> \o KillJoin(Tail(ps))

\* The kill command without its `if pids else ''`: "kill -9 " for no pids.
KillCmd_Unguarded(ps) == IF ps # <<>> THEN KillJoin(ps) ELSE <<KillTok(0)>>

\* cmd = f"kill -9 {...}" if pids else ''
KillCmd(ps) == IF ps # <<>> THEN KillJoin(ps) ELSE <<>>

\* The compound command with its two sides swapped: f'{tail} && {cmd}'.
ThenCmd_StartFirst(ps, tail) ==
  IF ps # <<>> THEN <<tail, AndTok>> \o KillCmd(ps) ELSE <<tail>>

\* The compound command without its `if pids else tail`.
ThenCmd_AlwaysJoins(ps, tail) == KillCmd(ps) \o <<AndTok, tail>>

\* cmd = f'{cmd} && {tail}' if pids else tail
ThenCmd(ps, tail) == IF ps # <<>> THEN KillCmd(ps) \o <<AndTok, tail>> ELSE <<tail>>

\* The command each process_* function derives before show_cmd.
BuildCmd(f, ps, s) ==
  CASE f = "start"   -> <<s.cm_start>>
    [] f = "stop"    -> KillCmd(ps)
    [] f = "restart" -> ThenCmd(ps, s.cm_start)
    [] f = "debug"   -> ThenCmd(ps, s.cm_debug)
    [] f = "list"    -> <<s.cm_list>>
    [] f = "listall" -> <<s.cm_listall>>

\* show_cmd() without its branch for specified configs.
ShowCmdExits_ImplicitOnly(a) == Len(a) > 2 /\ a[3] = "-s"

\* show_cmd(): whether it exits, i.e. sys.argv[2] or sys.argv[4] is '-s'.
ShowCmdExits(a) ==
  \/ Len(a) > 2 /\ a[3] = "-s"
  \/ Len(a) > 4 /\ a[5] = "-s"

\* /bin/sh -c: a command line is empty or simple commands separated by &&.
WellFormed(c) ==
  \/ c = <<>>
  \/ /\ Len(c) % 2 = 1
     /\ \A k \in 1..Len(c) :
          IF k % 2 = 1 THEN c[k].t \in {"kill", "start", "debug"}
                       ELSE c[k].t = "&&"

SmallestFree(tbl) == CHOOSE p \in Pids : tbl[p] = "free" /\ \A q \in 1..(p - 1) : tbl[q] # "free"

\* The shell running the simple commands of c from position k on, left to
\* right, stopping at the first one that exits non-zero.  kill -9 p succeeds
\* iff p is the pid of a live process.  res is what the server does when its segment
\* runs: "ok" (exit 0; the daemonized start leaves a new gunicorn process,
\* for which a free pid is needed), "fail" (non-zero exit), "int" (the
\* operator interrupts the foreground run).
RECURSIVE ShFrom(_, _, _, _)
ShFrom(c, k, res, st) ==
  IF k > Len(c) THEN st
  ELSE LET tok == c[k] IN
    IF tok.t = "kill"
    THEN LET tried == [st EXCEPT !.kills = Append(@, tok.n)] IN
         IF tok.n \in Pids /\ st.table[tok.n] # "free"
         THEN ShFrom(c, k + 2, res, [tried EXCEPT !.table[tok.n] = "free"])
         ELSE [tried EXCEPT !.status = "nonzero", !.failed = Append(@, tok.n)]
    ELSE LET ran == [st EXCEPT !.launched = TRUE] IN
         IF tok.t = "start"
         THEN IF res = "ok" /\ \E p \in Pids : st.table[p] = "free"
              THEN ShFrom(c, k + 2, res,
                          [ran EXCEPT !.table[SmallestFree(st.table)] = "guni"])
              ELSE [ran EXCEPT !.status = "nonzero"]
         ELSE IF res = "ok" THEN ShFrom(c, k + 2, res, ran)
              ELSE IF res = "int" THEN [ran EXCEPT !.status = "interrupt"]
              ELSE [ran EXCEPT !.status = "nonzero"]

\* check_output(cmd, shell=True): the exit status, the process table
\* afterwards, the pids kill -9 was run on, those it failed on and
\* whether the server ran.
Sh(c, tbl, res) ==
  LET st0 == [status |-> "ok", table |-> tbl, kills |-> <<>>,
              failed |-> <<>>, launched |-> FALSE]
  IN  IF WellFormed(c) THEN ShFrom(c, 1, res, st0)
      ELSE [st0 EXCEPT !.status = "nonzero"]

----------------------------------------------------------------------------
(* One invocation: main and the process_* functions, one action per        *)
(* external call so that the environment may act between them.             *)

Invs == DOMAIN pc

Running(i) == pc[i] # "done"

\* The invocation i ends: `how` is "return" (main returned), "sysexit" or
\* "uncaught"; msgs is what it prints last.
End(i, how, msgs) ==
  /\ pc'   = [pc EXCEPT ![i] = "done"]
  /\ exit' = [exit EXCEPT ![i] = how]
  /\ out'  = [out EXCEPT ![i] = @ \o msgs]

\* The exit status of the interpreter: 0 when main returns; 1 after
\* sys.exit(<a string>), which prints the string on stderr, and after an
\* uncaught exception.
ExitStatus(how) == IF how = "return" THEN 0 ELSE 1

\* The invocation i goes on at `to`, having printed msgs.
Goto(i, to, msgs) ==
  /\ pc'   = [pc EXCEPT ![i] = to]
  /\ out'  = [out EXCEPT ![i] = @ \o msgs]
  /\ UNCHANGED exit

\* main(): dispatch on sys.argv[1].
Dispatch(a) ==
  IF Len(a) = 1 THEN "list"
  ELSE CASE a[2] \in {"list", "-l"}              -> "list"
         [] a[2] = "start"                       -> "start"
         [] a[2] = "stop"                        -> "stop"
         [] a[2] \in {"restart", "reload"}       -> "restart"
         [] a[2] = "debug"                       -> "debug"
         [] a[2] \in {"conf", "-c"}              -> "conf"
         [] a[2] \in {"pids", "pid", "-p"}       -> "pid"
         [] a[2] \in {"all", "-a"}               -> "listall"
         [] a[2] \in {"-v", "--version"}         -> "version"
         [] a[2] \in {"help", "-h", "--help", "man"} -> "manual"
         [] OTHER                                -> "invalid"

Main(i) ==
  /\ pc[i] = "main"
  /\ LET f == Dispatch(argv[i]) IN
       /\ fn' = [fn EXCEPT ![i] = f]
       /\ IF f \in {"version", "manual", "invalid"}
          THEN End(i, "return", <<f>>)
          ELSE Goto(i, "load", <<>>)
  /\ UNCHANGED <<envvars, argv, settings, psout, pids, cmd, shown, scans,
                 execs, reads, loads, status, kills, failed, launched>>

\* Where a process_* function goes on after load_conf() returned.
AfterLoad(f) ==
  CASE f \in {"start", "list", "listall"}       -> "show"
    [] f \in {"stop", "restart", "debug", "pid"} -> "scan"
    [] f = "conf"                                -> "read"

\* The load_conf() call that opens every process_* function.
LoadConf(i) ==
  /\ pc[i] = "load"
  /\ LET r == load_conf(argv[i], settings[i], conf, appdir) IN
       /\ settings' = [settings EXCEPT ![i] = r.settings]
       /\ reads'    = [reads EXCEPT ![i] = @ + r.read]
       /\ loads'    = [loads EXCEPT ![i] = @ + 1]
       /\ IF r.exit # "" THEN End(i, r.exit, <<r.msg>>)
          ELSE Goto(i, AfterLoad(fn[i]), <<>>)
  /\ UNCHANGED <<envvars, argv, fn, psout, pids, cmd, shown, scans, execs,
                 status, kills, failed, launched>>

\* What process_stop / process_restart / process_debug print after show_cmd.
Banner(f) ==
  CASE f = "stop"    -> <<"stopping">>
    [] f = "restart" -> <<"restarting">>
    [] f = "debug"   -> <<"debug_mode">>
    [] OTHER         -> <<>>

\* The derivation of cmd and the show_cmd(cmd) call; process_list has no cmd
\* variable and hands the list command over directly.
ShowCmd(i) ==
  /\ pc[i] = "show"
  /\ LET c == BuildCmd(fn[i], pids[i], settings[i]) IN
       /\ cmd' = [cmd EXCEPT ![i] = IF fn[i] \in {"list", "listall"} THEN @ ELSE c]
       /\ IF ShowCmdExits(argv[i])
          THEN /\ shown' = [shown EXCEPT ![i] = c]
               /\ End(i, "sysexit", <<"cmd">>)
          ELSE /\ UNCHANGED shown
               /\ Goto(i, IF fn[i] \in {"start", "list", "listall"}
                          THEN "scan" ELSE "run", Banner(fn[i]))
  /\ UNCHANGED <<envvars, argv, fn, settings, psout, pids, scans, execs,
                 reads, loads, status, kills, failed, launched>>

\* Where a process_* function goes on (pc `to`, or its end `exit`) and what
\* it prints.
Flow(how, to, msgs) == [exit |-> how, to |-> to, msgs |-> msgs]

\* process_start refusing to start an application that is running.
StartAfterScan_Rejects(ps) ==
  IF ps # <<>> THEN Flow("return", "done", <<"already_running">>)
  ELSE Flow("", "run", <<"starting">>)

\* process_start after pids = get_pids(): a warning if pids, then on to
\* run_cmd in either case.
StartAfterScan(ps) ==
  Flow("", "run", (IF ps # <<>> THEN <<"already_running">> ELSE <<>>)
                  \o <<"starting">>)

\* What follows pids = get_pids() in each process_* function.
AfterScan(f, ps) ==
  CASE f = "start" -> StartAfterScan(ps)
    [] f = "pid"   -> Flow("return", "done", <<"pids">>)
    [] OTHER       -> Flow("", "show", <<>>)

\* get_pids() and what follows it, on the output `listing` of the list
\* command.
Scanned(i, listing) ==
  LET r  == ps_aux(listing)
      ps == get_pids(r.procs)
      h  == AfterScan(fn[i], ps)
  IN  IF r.err
      THEN /\ UNCHANGED pids
           /\ End(i, "uncaught", <<r.exc>>)
      ELSE /\ pids' = [pids EXCEPT ![i] = ps]
           /\ IF h.exit = "" THEN Goto(i, h.to, h.msgs)
              ELSE End(i, h.exit, h.msgs)

\* pids = get_pids() in process_start, _stop, _restart, _debug and _pid.
GetPids(i) ==
  /\ pc[i] = "scan"
  /\ fn[i] \in {"start", "stop", "restart", "debug", "pid"}
  /\ scans' = [scans EXCEPT ![i] = @ + 1]
  /\ psout' = [psout EXCEPT ![i] = Listing(table, FALSE)]
  /\ Scanned(i, Listing(table, FALSE))
  /\ UNCHANGED <<envvars, argv, fn, settings, cmd, shown, execs, reads,
                 loads, status, kills, failed, launched>>

\* procs = ps_aux(show_all) in process_list, and the report printed from it.
ListProcs(i) ==
  /\ pc[i] = "scan"
  /\ fn[i] \in {"list", "listall"}
  /\ scans' = [scans EXCEPT ![i] = @ + 1]
  /\ psout' = [psout EXCEPT ![i] = Listing(table, fn[i] = "listall")]
  /\ LET r == ps_aux(Listing(table, fn[i] = "listall")) IN
       IF r.err THEN End(i, "uncaught", <<r.exc>>)
       ELSE IF r.procs # <<>> THEN End(i, "return", <<"running">>)
       ELSE End(i, "return", <<"not_running">>)
  /\ UNCHANGED <<envvars, argv, fn, settings, pids, cmd, shown, execs, reads,
                 loads, status, kills, failed, launched>>

\* What the server may do when its segment of the command runs.
Outcomes(f) == IF f = "debug" THEN {"ok", "fail", "int"} ELSE {"ok", "fail"}

\* What a process_* function does with the exit status of run_cmd(cmd):
\* how it ends ("" when it goes on to the trailing process_list()) and what
\* it prints.  The output of the command is empty (kill and the daemonized
\* server write nothing to stdout), so print(run) prints nothing.
Handled(how, msgs) == [exit |-> how, msgs |-> msgs]

\* process_start: try / except CalledProcessError around run_cmd and
\* process_list.
StartAfterRun(st, ps) ==
  IF st = "ok" THEN Handled("", <<>>)
  ELSE Handled("return", <<"nothing_to_start">>)

\* process_stop: run_cmd outside any try.
StopAfterRun(st, ps) ==
  IF st # "ok" THEN Handled("uncaught", <<"CalledProcessError">>)
  ELSE Handled("return", IF ps = <<>> THEN <<"nothing_to_stop">> ELSE <<>>)

\* process_restart with process_list() after the try statement instead of
\* inside it.
RestartAfterRun_AlwaysLists(st, ps) ==
  Handled("", IF st = "ok" THEN <<>> ELSE <<"nothing_to_restart">>)

\* process_restart: as process_start.
RestartAfterRun(st, ps) ==
  IF st = "ok" THEN Handled("", <<>>)
  ELSE Handled("return", <<"nothing_to_restart">>)

\* process_debug with `except Exception:` for its bare except: a
\* KeyboardInterrupt is no Exception.
DebugAfterRun_ExceptException(st, ps) ==
  IF st = "interrupt" THEN Handled("uncaught", <<"KeyboardInterrupt">>)
  ELSE IF st # "ok" THEN Handled("return", <<"blank">>)
  ELSE Handled("return", <<>>)

\* process_debug: the inner bare except catches every exception of run_cmd
\* (CalledProcessError and KeyboardInterrupt alike) and prints an empty
\* line; the outer except CalledProcessError is never reached.
DebugAfterRun(st, ps) ==
  IF st # "ok" THEN Handled("return", <<"blank">>)
  ELSE Handled("return", <<>>)

AfterRun(f, st, ps) ==
  CASE f = "start"   -> StartAfterRun(st, ps)
    [] f = "stop"    -> StopAfterRun(st, ps)
    [] f = "restart" -> RestartAfterRun(st, ps)
    [] f = "debug"   -> DebugAfterRun(st, ps)

\* run_cmd(cmd) in process_start, _stop, _restart and _debug, and what
\* follows it.
RunCmd(i) ==
  /\ pc[i] = "run"
  /\ \E res \in Outcomes(fn[i]) :
       LET r == Sh(cmd[i], table, res)
           h == AfterRun(fn[i], r.status, pids[i])
       IN  /\ table'    = r.table
           /\ execs'    = [execs EXCEPT ![i] = @ + 1]
           /\ status'   = [status EXCEPT ![i] = r.status]
           /\ kills'    = [kills EXCEPT ![i] = @ \o r.kills]
           /\ failed'   = [failed EXCEPT ![i] = @ \o r.failed]
           /\ launched' = [launched EXCEPT ![i] = @ \/ r.launched]
           /\ IF h.exit = ""
              THEN /\ fn' = [fn EXCEPT ![i] = "list"]
                   /\ Goto(i, "load", h.msgs)
              ELSE /\ UNCHANGED fn
                   /\ End(i, h.exit, h.msgs)
  /\ UNCHANGED <<conf, appdir, argv, settings, psout, pids, cmd, shown, scans,
                 reads, loads>>

\* process_conf() after load_conf(): settings.conf_file is read, an
\* attribute class settings does not have.
ReadConf(i) ==
  /\ pc[i] = "read"
  /\ End(i, "uncaught", <<"AttributeError">>)
  /\ UNCHANGED <<envvars, argv, fn, settings, psout, pids, cmd, shown, scans,
                 execs, reads, loads, status, kills, failed, launched>>

----------------------------------------------------------------------------
(* The environment, while an invocation runs *)

invvars == <<argv, pc, fn, settings, psout, pids, cmd, out, exit, shown,
             scans, execs, reads, loads, status, kills, failed, launched>>

\* A process exits by itself.
ProcExit ==
  /\ \E i \in Invs : Running(i)
  /\ \E p \in Pids :
       /\ table[p] # "free"
       /\ table' = [table EXCEPT ![p] = "free"]
  /\ UNCHANGED <<conf, appdir, invvars>>

\* Somebody edits the settings file: the port changes.
ConfEdit ==
  /\ \E i \in Invs : Running(i)
  /\ conf.exists
  /\ \E q \in Ports \ {conf.port} : conf' = [conf EXCEPT !.port = q]
  /\ UNCHANGED <<table, appdir, invvars>>

\* Somebody removes the settings file.
ConfRemove ==
  /\ \E i \in Invs : Running(i)
  /\ conf.exists
  /\ conf' = [conf EXCEPT !.exists = FALSE]
  /\ UNCHANGED <<table, appdir, invvars>>

----------------------------------------------------------------------------
(* Specification *)

\* The command lines drawn on (Python's sys.argv): no operation, an
\* operation, each alone or followed by -s, by a settings path and an
\* application directory, or by both and -s.
Operations ==
  {"list", "start", "stop", "restart", "reload", "debug", "conf", "pid",
   "all", "-v", "help", "bogus"}

Argvs ==
  {<<"runapp">>}
  \cup {<<"runapp", o>> : o \in Operations}
  \cup {<<"runapp", o, "-s">> : o \in Operations}
  \cup {<<"runapp", o, "dir/runapp.conf", "appdir">> : o \in Operations}
  \cup {<<"runapp", o, "dir/runapp.conf", "appdir", "-s">> : o \in Operations}

InitInv(I) ==
  /\ argv \in [I -> Argvs]
  /\ pc = [i \in I |-> "main"]
  /\ fn = [i \in I |-> ""]
  /\ settings = [i \in I |-> InitialSettings]
  /\ psout = [i \in I |-> <<>>]
  /\ pids = [i \in I |-> <<>>]
  /\ cmd = [i \in I |-> <<>>]
  /\ out = [i \in I |-> <<>>]
  /\ exit = [i \in I |-> ""]
  /\ shown = [i \in I |-> <<>>]
  /\ scans = [i \in I |-> 0]
  /\ execs = [i \in I |-> 0]
  /\ reads = [i \in I |-> 0]
  /\ loads = [i \in I |-> 0]
  /\ status = [i \in I |-> ""]
  /\ failed = [i \in I |-> <<>>]
  /\ kills = [i \in I |-> <<>>]
  /\ launched = [i \in I |-> FALSE]

Init ==
  /\ table \in [Pids -> Kinds]
  /\ conf \in InitialConfFiles
  /\ appdir \in BOOLEAN
  /\ InitInv({1})

Next ==
  \/ \E i \in Invs : Main(i)
  \/ \E i \in Invs : LoadConf(i)
  \/ \E i \in Invs : ShowCmd(i)
  \/ \E i \in Invs : GetPids(i)
  \/ \E i \in Invs : ListProcs(i)
  \/ \E i \in Invs : RunCmd(i)
  \/ \E i \in Invs : ReadConf(i)
  \/ ProcExit
  \/ ConfEdit
  \/ ConfRemove

Spec == Init /\ [][Next]_vars

----------------------------------------------------------------------------
(* The scanner alone: ps_aux and get_pids on synthetic listings *)

\* The lines of a synthetic listing: any pid, 1, 10 or 11 fields, and for a
\* line of 11 fields a COMMAND field with or without 'gunicorn'.
SynLines ==
  {l \in [pid : Pids, nf : {1, PsFields - 1, PsFields}, guni : BOOLEAN] :
     l.guni => l.nf = PsFields}

\* The listings of at most MaxLines lines.
SynListings == UNION {[1..n -> SynLines] : n \in 0..MaxLines}

\* process_pid at the point where check_output has returned the listing.
InitScan ==
  /\ table = [p \in Pids |-> "free"]
  /\ conf = [exists |-> TRUE, keys |-> TRUE, ssl |-> "certkey", port |-> 8000]
  /\ appdir = TRUE
  /\ argv = [i \in {1} |-> <<"runapp", "pid">>]
  /\ pc = [i \in {1} |-> "parse"]
  /\ fn = [i \in {1} |-> "pid"]
  /\ settings = [i \in {1} |->
                   load_conf(<<"runapp", "pid">>, InitialSettings, conf, TRUE).settings]
  /\ psout \in [{1} -> SynListings]
  /\ pids = [i \in {1} |-> <<>>]
  /\ cmd = [i \in {1} |-> <<>>]
  /\ out = [i \in {1} |-> <<>>]
  /\ exit = [i \in {1} |-> ""]
  /\ shown = [i \in {1} |-> <<>>]
  /\ scans = [i \in {1} |-> 1]
  /\ execs = [i \in {1} |-> 0]
  /\ reads = [i \in {1} |-> 1]
  /\ loads = [i \in {1} |-> 1]
  /\ status = [i \in {1} |-> ""]
  /\ kills = [i \in {1} |-> <<>>]
  /\ failed = [i \in {1} |-> <<>>]
  /\ launched = [i \in {1} |-> FALSE]

\* The rest of ps_aux (the parsing of the output) and of get_pids.
ParseListing(i) ==
  /\ pc[i] = "parse"
  /\ Scanned(i, psout[i])
  /\ UNCHANGED <<envvars, argv, fn, settings, psout, cmd, shown, scans, execs,
                 reads, loads, status, kills, failed, launched>>

NextScan == \E i \in Invs : ParseListing(i)

SpecScan == InitScan /\ [][NextScan]_vars

----------------------------------------------------------------------------
(* Two invocations of start against the same application at once *)

\* Both invocations are `runapp start`, in the current directory or with a
\* settings path and an application directory; the settings file loads and
\* is left alone, while processes may exit at any time.
InitRace ==
  /\ table \in [Pids -> {"free", "guni"}]
  /\ conf = [exists |-> TRUE, keys |-> TRUE, ssl |-> "certkey", port |-> 8000]
  /\ appdir = TRUE
  /\ InitInv({1, 2})
  /\ \A i \in {1, 2} :
       argv[i] \in {<<"runapp", "start">>,
                    <<"runapp", "start", "dir/runapp.conf", "appdir">>}

NextRace ==
  \/ \E i \in Invs : Main(i)
  \/ \E i \in Invs : LoadConf(i)
  \/ \E i \in Invs : ShowCmd(i)
  \/ \E i \in Invs : GetPids(i)
  \/ \E i \in Invs : ListProcs(i)
  \/ \E i \in Invs : RunCmd(i)
  \/ ProcExit

SpecRace == InitRace /\ [][NextRace]_vars

----------------------------------------------------------------------------
(* Properties *)

\* The operation an invocation was asked for.
Oper(i) == Dispatch(argv[i])

\* start, stop, restart (reload) and debug.
Mutating == {"start", "stop", "restart", "debug"}

\* -s given as the 2nd argument (implicit mode: the settings file of the
\* current directory) or as the 4th argument (explicit mode: after the
\* settings path and the application directory).
DryRunRequested(i) ==
  \/ Len(argv[i]) = 3 /\ argv[i][3] = "-s"
  \/ Len(argv[i]) = 5 /\ argv[i][5] = "-s"

\* load_conf() of the invocation got through: the commands are derived.
Loaded(i) == settings[i].cm_start # NoTok

Ended(i) == pc[i] = "done"

\* C1 (as claimed): a start, stop, restart or debug invoked with -s never
\* performs a process-table scan: no process-listing command has been run at
\* any point of the invocation, its end included.
C1_DryRunNeverScans ==
  \A i \in Invs :
    (Oper(i) \in Mutating /\ DryRunRequested(i)) => scans[i] = 0

\* C2: a start, stop, restart or debug invoked with -s never executes a
\* command (no run_cmd, no kill, no server launch), whatever the process
\* table holds, and once its settings are loaded it ends by sys.exit with the
\* derived command as the printed message.
C2_DryRunNeverExecutes ==
  \A i \in Invs :
    (Oper(i) \in Mutating /\ DryRunRequested(i)) =>
      /\ execs[i] = 0
      /\ kills[i] = <<>>
      /\ ~launched[i]
      /\ pc[i] \notin {"run"}
      /\ (Ended(i) /\ Loaded(i)) =>
           /\ exit[i] = "sysexit"
           /\ out[i] = <<"cmd">>
           /\ shown[i] = cmd[i]
           /\ shown[i] = BuildCmd(Oper(i), pids[i], settings[i])

\* C2 witness: an explicit-mode restart -s has ended after printing a
\* command that holds a kill segment for a live process and the start
\* segment, with that process still alive.
C2_Witness ==
  \E i \in Invs :
    /\ Oper(i) = "restart" /\ DryRunRequested(i) /\ Len(argv[i]) = 5
    /\ Ended(i) /\ exit[i] = "sysexit"
    /\ Len(shown[i]) = 3
    /\ shown[i][1].t = "kill" /\ table[shown[i][1].n] = "guni"
    /\ shown[i][3].t = "start"

\* The invocation printed the message m.
Printed(i, m) == \E k \in 1..Len(out[i]) : out[i][k] = m

\* C3: a restart that found pids issues one compound command: a kill -9 of
\* every discovered pid, in scan order, each followed by &&, then the start
\* command last; the start segment has run only if every kill was run and
\* none failed, and if a kill failed the server was not launched.
C3_RestartKillsThenStarts ==
  \A i \in Invs :
    (Oper(i) = "restart" /\ pids[i] # <<>> /\ (pc[i] = "run" \/ execs[i] > 0)) =>
      LET c == cmd[i]
          n == Len(pids[i])
      IN  /\ execs[i] <= 1
          /\ Len(c) = 2 * n + 1
          /\ \A k \in 1..n : c[2 * k - 1] = KillTok(pids[i][k]) /\ c[2 * k] = AndTok
          /\ c[2 * n + 1] = settings[i].cm_start
          /\ launched[i] => (kills[i] = pids[i] /\ failed[i] = <<>>)
          /\ failed[i] # <<>> => ~launched[i]

\* C3 witness: a restart that found two pids killed both and then launched
\* the server.
C3_Witness ==
  \E i \in Invs :
    /\ Oper(i) = "restart" /\ Len(pids[i]) = 2
    /\ execs[i] = 1 /\ status[i] = "ok"
    /\ kills[i] = pids[i] /\ launched[i]

\* The other case of C3: a kill of the compound command failed (the process
\* had exited since the scan) and the server was not launched.
C3_FailedKillReached ==
  \E i \in Invs :
    /\ Oper(i) = "restart" /\ execs[i] = 1
    /\ failed[i] # <<>> /\ ~launched[i]

\* C4: a stop (not a dry run) whose scan found no pid has, when it ends,
\* printed "Nothing to stop", run no kill (its command is the empty string)
\* and returned normally.
C4_StopNothing ==
  \A i \in Invs :
    (Oper(i) = "stop" /\ ~DryRunRequested(i) /\ Ended(i)
       /\ scans[i] >= 1 /\ pids[i] = <<>>) =>
      /\ exit[i] = "return"
      /\ Printed(i, "nothing_to_stop")
      /\ cmd[i] = <<>>
      /\ kills[i] = <<>>
      /\ ~launched[i]

\* C4 witness: such a stop has ended, with a process in the table that
\* matches the application name but is no gunicorn process.
C4_Witness ==
  \E i \in Invs :
    /\ Oper(i) = "stop" /\ ~DryRunRequested(i) /\ Ended(i)
    /\ scans[i] = 1 /\ pids[i] = <<>> /\ execs[i] = 1
    /\ \E p \in Pids : table[p] = "edit"

\* C5 (as claimed): a stop that found pids and ran its command has run
\* kill -9 on every discovered pid, also when one of them had exited.
C5_StopKillsEveryPid ==
  \A i \in Invs :
    (Oper(i) = "stop" /\ pids[i] # <<>> /\ execs[i] = 1) => kills[i] = pids[i]

\* C6 (as claimed): when the command run by start, stop, restart or debug
\* exits non-zero, the invocation ends by a normal return and not by an
\* uncaught error.
C6_FailureNeverPropagates ==
  \A i \in Invs :
    (Oper(i) \in Mutating /\ status[i] = "nonzero" /\ Ended(i)) =>
      exit[i] = "return"

\* C7 (as claimed): when the command run by start, restart or debug exits
\* non-zero, the matching "Nothing to ..." message has been printed when
\* the invocation ends.
C7_NothingToMessage ==
  \A i \in Invs :
    (Oper(i) \in {"start", "restart", "debug"} /\ status[i] = "nonzero"
       /\ Ended(i)) =>
      Printed(i, CASE Oper(i) = "start"   -> "nothing_to_start"
                   [] Oper(i) = "restart" -> "nothing_to_restart"
                   [] Oper(i) = "debug"   -> "nothing_to_debug")

\* C8: when the operator interrupts the foreground run of debug, the
\* invocation ends by a normal return, and neither an error nor a failure
\* message is printed.
C8_DebugInterruptSuppressed ==
  \A i \in Invs :
    (Oper(i) = "debug" /\ status[i] = "interrupt") =>
      /\ Ended(i)
      /\ exit[i] = "return"
      /\ \A k \in 1..Len(out[i]) :
           out[i][k] \notin {"nothing_to_debug", "KeyboardInterrupt",
                             "CalledProcessError"}

\* C8 witness: a debug run that killed the running server first has been
\* interrupted.
C8_Witness ==
  \E i \in Invs :
    /\ Oper(i) = "debug" /\ status[i] = "interrupt" /\ Ended(i)
    /\ launched[i] /\ kills[i] # <<>>

\* C9 (as claimed): every invocation runs at most one process-listing
\* command and at most one command.
C9_AtMostOneScanOneExec ==
  \A i \in Invs : scans[i] <= 1 /\ execs[i] <= 1

\* C9 (amended): every invocation runs at most one command and at most two
\* process-listing commands; a second listing is run only by the trailing
\* process_list() of a start or restart whose command exited zero.
C9_AtMostOneExecTwoScans ==
  \A i \in Invs :
    /\ execs[i] <= 1
    /\ scans[i] <= 2
    /\ scans[i] = 2 =>
         /\ Oper(i) \in {"start", "restart"}
         /\ fn[i] = "list"
         /\ execs[i] = 1 /\ status[i] = "ok"

\* C9 witness: a start has run its command and listed processes twice.
C9_Witness ==
  \E i \in Invs : Oper(i) = "start" /\ scans[i] = 2 /\ execs[i] = 1

\* C10: over the load_conf() calls of one invocation the settings file is
\* opened once, by the first call: an invocation that called load_conf()
\* twice has read the file once, and after the first call no step changes
\* the number of reads, the settings or the derived commands.
C10_LoadedOnce ==
  /\ [](\A i \in Invs : loads[i] >= 2 => reads[i] = 1)
  /\ [][\A i \in Invs :
          loads[i] >= 1 => (reads'[i] = reads[i] /\ settings'[i] = settings[i])]_vars

\* C10 witness: the second load_conf() call of a start returned with the
\* settings file holding another port than the settings loaded.
C10_Witness ==
  \E i \in Invs :
    /\ Oper(i) = "start" /\ loads[i] = 2 /\ reads[i] = 1
    /\ conf.exists /\ conf.port # settings[i].port
    /\ settings[i].cm_start.n = settings[i].port

\* C11 (as claimed): an invocation that read a settings file with all six
\* required keys and no sslcertkey option has loaded its settings, and its
\* start command carries no TLS flags.
C11_NoTlsKeyLoads ==
  \A i \in Invs :
    (reads[i] = 1 /\ conf.keys /\ conf.ssl = "absent") =>
      /\ Loaded(i)
      /\ ~settings[i].cm_start.tls
      /\ ~Printed(i, "UnboundLocalError")

\* C12 (as claimed): a start, stop, restart or debug invoked with -s, once
\* its settings are loaded, ends having printed the derived command, with
\* exit status 0.
C12_DryRunExitsZero ==
  \A i \in Invs :
    (Oper(i) \in Mutating /\ DryRunRequested(i) /\ Loaded(i) /\ Ended(i)) =>
      /\ shown[i] = cmd[i] /\ Printed(i, "cmd")
      /\ ExitStatus(exit[i]) = 0

\* C13 (as claimed): a conf invocation whose settings are loaded and whose
\* settings file is still there ends normally, having printed the contents
\* of the file.
C13_ConfPrintsFile ==
  \A i \in Invs :
    (Oper(i) = "conf" /\ Loaded(i) /\ conf.exists /\ Ended(i)) =>
      /\ exit[i] = "return"
      /\ Printed(i, "conf_contents")

\* The pids of the lines of a listing whose COMMAND field contains
\* 'gunicorn', in listing order.
RECURSIVE GunicornPids(_)
GunicornPids(listing) ==
  IF listing = <<>> THEN <<>>
  ELSE (IF Head(listing).guni THEN <<Head(listing).pid>> ELSE <<>>)
       \o GunicornPids(Tail(listing))

\* C14 (as claimed): for every listing, whatever the number of fields of its
\* lines without 'gunicorn', the scan ends normally and returns one record
\* for each line with 'gunicorn', in listing order, with the pid of the line.
C14_ScanReturnsGunicornLines ==
  \A i \in Invs :
    Ended(i) => (exit[i] = "return" /\ pids[i] = GunicornPids(psout[i]))

\* The part of C14 that the scanner fulfils: listings all of whose lines have
\* 11 fields.
C14_FullLinesScanned ==
  \A i \in Invs :
    (Ended(i) /\ \A k \in 1..Len(psout[i]) : psout[i][k].nf = PsFields) =>
      (exit[i] = "return" /\ pids[i] = GunicornPids(psout[i]))

\* process_list has run its scan: the only scan of a list or all, the second
\* one of a start or restart.
ListScanned(i) ==
  /\ fn[i] \in {"list", "listall"}
  /\ scans[i] = (IF Oper(i) \in {"start", "restart"} THEN 2 ELSE 1)

\* C15: when the list command of a scan exits non-zero (no line matches: its
\* output is empty), the scan raises nothing and yields no record: list and
\* all end normally with the not-running notice, and start, stop, restart,
\* debug and pid go on with an empty pid list and do not end by an uncaught
\* error.
C15_EmptyScanNoError ==
  \A i \in Invs :
    (scans[i] >= 1 /\ psout[i] = <<>>) =>
      /\ ~Printed(i, "CalledProcessError")
      /\ ~Printed(i, "IndexError")
      /\ ListScanned(i) =>
           (Ended(i) /\ exit[i] = "return" /\ Printed(i, "not_running"))
      /\ fn[i] \in {"start", "stop", "restart", "debug", "pid"} =>
           (pids[i] = <<>> /\ exit[i] # "uncaught")

\* C15 witness: a list has ended with the not-running notice while the
\* process table holds processes that its pattern does not match.
C15_Witness ==
  \E i \in Invs :
    /\ Oper(i) = "list" /\ Ended(i) /\ scans[i] = 1 /\ psout[i] = <<>>
    /\ Printed(i, "not_running")
    /\ \E p \in Pids : table[p] = "other"

\* The other case of C15: a stop went on after an empty scan and has ended.
C15_StopProceeded ==
  \E i \in Invs :
    /\ Oper(i) = "stop" /\ Ended(i) /\ scans[i] = 1 /\ psout[i] = <<>>
    /\ execs[i] = 1 /\ exit[i] = "return"

\* C16 (as claimed): an invocation that read a settings file whose
\* sslcertkey option names one path ends by signalling a configuration
\* error, a sys.exit with an explanatory message, and has built no start
\* command.
C16_PartialTlsIsConfigError ==
  \A i \in Invs :
    (reads[i] = 1 /\ conf.keys /\ conf.ssl = "cert") =>
      /\ Ended(i)
      /\ exit[i] = "sysexit"
      /\ ~Loaded(i)

\* C17: no invocation of start is rejected or blocked by the other one:
\* whenever a start is at its run_cmd the step is enabled, whatever the
\* other invocation does or has done, and a start whose settings loaded never
\* ends without having executed its command.
C17_StartNeverBlocked ==
  \A i \in Invs :
    /\ pc[i] = "run" => ENABLED RunCmd(i)
    /\ (Ended(i) /\ Loaded(i)) => (execs[i] = 1 /\ launched[i])

\* C17 witness: both invocations scanned before either launched, and
\* both have executed the start command with exit status 0.
C17_Witness ==
  /\ \A i \in Invs : execs[i] = 1 /\ launched[i] /\ status[i] = "ok"
  /\ \A i \in Invs : pids[i] = <<>>
  /\ Cardinality({p \in Pids : table[p] = "guni"}) = 2

\* C18: start never kills and never rejects: its command is the start
\* command alone, no kill -9 is ever run by it, and a start whose scan found
\* the application running has printed the already-running warning and, when
\* it ends, has executed the start command all the same.
C18_StartNeverRejectsNorKills ==
  \A i \in Invs :
    Oper(i) = "start" =>
      /\ kills[i] = <<>>
      /\ (pc[i] = "run" \/ execs[i] >= 1) =>
           /\ cmd[i] = <<settings[i].cm_start>>
           /\ pids[i] # <<>> => Printed(i, "already_running")
      /\ (Ended(i) /\ pids[i] # <<>>) => (execs[i] = 1 /\ launched[i])

\* C18 witness: a start found the application running, launched the server
\* again, and the processes it found are still alive.
C18_Witness ==
  \E i \in Invs :
    /\ Oper(i) = "start" /\ pids[i] # <<>>
    /\ Printed(i, "already_running")
    /\ execs[i] = 1 /\ launched[i] /\ status[i] = "ok"
    /\ \A k \in 1..Len(pids[i]) : table[pids[i][k]] = "guni"

\* C19: a restart (a debug) whose scan found no pid executes the start (the
\* debug) command alone: one segment, no kill and no &&, so the shell runs
\* the server segment.
C19_NoPidsCommandAlone ==
  \A i \in Invs :
    (Oper(i) \in {"restart", "debug"} /\ scans[i] >= 1 /\ pids[i] = <<>>
       /\ (pc[i] = "run" \/ execs[i] >= 1)) =>
      /\ cmd[i] = <<IF Oper(i) = "restart" THEN settings[i].cm_start
                    ELSE settings[i].cm_debug>>
      /\ cmd[i][1].t = (IF Oper(i) = "restart" THEN "start" ELSE "debug")
      /\ kills[i] = <<>>
      /\ execs[i] >= 1 => launched[i]

\* C19 witness: a debug that found no pid has run the debug command.
C19_Witness ==
  \E i \in Invs :
    /\ Oper(i) = "debug" /\ scans[i] = 1 /\ pids[i] = <<>>
    /\ execs[i] = 1 /\ launched[i]

\* The elements of a sequence.
Range(q) == {q[k] : k \in 1..Len(q)}

\* The pids named by the kill segments of a command.
KillTargets(c) == {c[k].n : k \in {j \in 1..Len(c) : c[j].t = "kill"}}

\* C20: in stop, restart and debug the pids named by the kill segments of
\* the command are exactly the pids of the one scan made before it, which
\* are the pids of the listing lines (those matching the application name)
\* whose command contains 'gunicorn'; kill -9 is run on no other pid.
C20_KillsExactlyTheScan ==
  \A i \in Invs :
    (Oper(i) \in {"stop", "restart", "debug"}
       /\ (pc[i] = "run" \/ execs[i] >= 1 \/ Printed(i, "cmd"))) =>
      /\ KillTargets(cmd[i]) = Range(pids[i])
      /\ scans[i] = 1 => pids[i] = GunicornPids(psout[i])
      /\ execs[i] = 0 => scans[i] = 1
      /\ Range(kills[i]) \subseteq Range(pids[i])

\* C20 witness: a stop killed the one gunicorn process of a listing of two
\* lines, and the other process of the listing is still alive.
C20_Witness ==
  \E i \in Invs :
    /\ Oper(i) = "stop" /\ execs[i] = 1 /\ status[i] = "ok"
    /\ Len(psout[i]) = 2 /\ Len(pids[i]) = 1 /\ kills[i] = pids[i]
    /\ \E p \in Pids : table[p] = "edit"

====
